---- MODULE Spec2Model ----
(***************************************************************************)
(* TuringMachineWithCache (src/turing_machine.py): a single-tape Turing    *)
(* machine with one auxiliary register ("cache").  The model covers the    *)
(* object built by __init__ and the run() method, one action per path      *)
(* through one iteration of run()'s loop.                                  *)
(*                                                                         *)
(* Strings are sequences of one-character symbols; a Python list index i   *)
(* is the sequence index i + 1.  Text written to stdout is not part of the *)
(* state; what the printing helpers can do to the caller's tape is.        *)
(***************************************************************************)
EXTENDS Integers, Sequences, FiniteSets, TLC

\* ---------------------------------------------------------------- bounds
MaxLen == 1
MaxSteps == 3
MaxTrans == 2
MaxInputs == 2
MaxTapeLen == 4
\* run()'s default ceiling is 10000 steps (line 40); the model takes a small
\* value so that a run which never halts is followed to its step limit.
DefaultMaxSteps == 3

\* -------------------------------------------------------------- alphabets
Blank == "B"
Marker == "$"
States == {"q0", "qa"}
InputSymbols == {"a", Marker}
None == [none |-> TRUE]

Entry(s, r, w, m, n) == [state |-> s, read |-> r, write |-> w, move |-> m, next |-> n]

\* Description entries the machines are assembled from; read and write are
\* [tape_symbol, cache_symbol] as in the description format.
TransitionPool ==
    { Entry("q0", <<"a", "B">>, <<"a", "B">>, "S", "q0"),
      Entry("q0", <<"a", "B">>, <<"$", "a">>, "R", "q0"),
      Entry("q0", <<"a", "B">>, <<"a", "B">>, "L", "q0"),
      Entry("q0", <<"B", "B">>, <<"B", "B">>, "R", "q0"),
      Entry("q0", <<"B", "a">>, <<"a", "B">>, "L", "qa"),
      Entry("q0", <<"$", "B">>, <<"$", "B">>, "L", "qa") }

Descriptions == UNION { [1..n -> TransitionPool] : n \in 0..MaxTrans }
\* Inputs: every string over InputSymbols up to MaxLen, and the blank alone.
InputStrings == UNION { [1..n -> InputSymbols] : n \in 0..MaxLen } \cup { <<Blank>> }
AcceptSets == { {}, {"qa"} }
CacheSymbols == {"B", "a"}
\* A key the description leaves out.
Absent == "<absent>"
ConfigCaches == CacheSymbols \cup {Absent}
\* The strings a description's inputs list is made of.
ListedStrings == { <<>>, <<"a">> }
InputLists == UNION { [1..n -> ListedStrings] : n \in 0..MaxInputs }
TapeSymbols == {"a", Marker, Blank}
Tapes == UNION { [1..n -> TapeSymbols] : n \in 0..MaxTapeLen }

VARIABLES
    transitions, accept_states, initial_state, initial_cache,
    input_string, max_steps, verbose,
    tape, head_position, current_state, current_cache, steps, current_symbol,
    pc, result,
    trace, prev,
    inputs, results, batch,
    config, parsed,
    given, rendered

fields == <<transitions, accept_states, initial_state, initial_cache, inputs>>
loader == <<config, parsed>>
render == <<given, rendered>>
args == <<input_string, max_steps, verbose>>
locals == <<tape, head_position, current_state, current_cache, steps, current_symbol>>
vars == <<fields, args, locals, pc, result, trace, prev, results, batch, loader, render>>

\* ------------------------------------------------------------ __init__
\* The key built with tape and cache symbol in the order of the read list.
TransitionKeySwapped(e) == <<e.state, e.read[1], e.read[2]>>

TransitionKey(e) == <<e.state, e.read[2], e.read[1]>>
TransitionValue(e) == <<e.next, e.write[2], e.write[1], e.move>>

\* config.get(key, default).
ConfigGet(value, default) == IF value = Absent THEN default ELSE value

\* The assignment keeping the value a key already has.
StoreTransitionKeepFirst(table, e) ==
    LET k == TransitionKey(e)
    IN [x \in (DOMAIN table) \cup {k} |->
            IF x \in DOMAIN table THEN table[x] ELSE TransitionValue(e)]

\* Line 38: self.transitions[key] = value.
StoreTransition(table, e) ==
    LET k == TransitionKey(e)
    IN [x \in (DOMAIN table) \cup {k} |-> IF x = k THEN TransitionValue(e) ELSE table[x]]

RECURSIVE ParseTransitions(_, _)
ParseTransitions(entries, table) ==
    IF entries = <<>> THEN table
    ELSE ParseTransitions(Tail(entries), StoreTransition(table, Head(entries)))

EmptyTable == [x \in {} |-> <<>>]

\* ------------------------------------------------------- list helpers
PyIndex(list, i) == IF i < 0 THEN list[Len(list) + i + 1] ELSE list[i + 1]
\* The write landing one cell to the left of the head.
PyStoreShifted(list, i, x) == [list EXCEPT ![i] = x]

PyStore(list, i, x) ==
    IF i < 0 THEN [list EXCEPT ![Len(list) + i + 1] = x] ELSE [list EXCEPT ![i + 1] = x]
Replace(str, c) == SelectSeq(str, LAMBDA x : x # c)

RECURSIVE TrimBlanks(_)
TrimBlanks(display_tape) ==
    IF Len(display_tape) > 1 /\ display_tape[Len(display_tape)] = Blank
    THEN TrimBlanks(SubSeq(display_tape, 1, Len(display_tape) - 1))
    ELSE display_tape

Rendered(display_tape) ==
    LET t == TrimBlanks(display_tape) IN IF t = <<>> THEN <<Blank>> ELSE t

\* _get_tape_string popping the caller's list instead of a copy.
get_tape_string_in_place(t) == [ret |-> Rendered(t), tape |-> TrimBlanks(t)]

\* ret: the returned string; tape: the caller's list after the call.
get_tape_string(t) == [ret |-> Rendered(t), tape |-> t]

\* _print_configuration popping the caller's list instead of a copy.
print_configuration_in_place(t) == TrimBlanks(t)

\* The caller's list after _print_configuration.
print_configuration(t) == t

\* The extension loop appending two blanks per pass.
RECURSIVE ExtendTapeTooFar(_, _)
ExtendTapeTooFar(t, h) ==
    IF h >= Len(t) THEN ExtendTapeTooFar(Append(Append(t, Blank), Blank), h) ELSE t

RECURSIVE ExtendTape(_, _)
ExtendTape(t, h) == IF h >= Len(t) THEN ExtendTape(Append(t, Blank), h) ELSE t

\* ------------------------------------------------------------- run()
\* The initial tape without its trailing blank.
InitialTapeNoBlank(s) == <<Marker>> \o s

InitialTape(s) == <<Marker>> \o s \o <<Blank>>
\* The head starting on the marker.
InitialHeadOnMarker == 1 - 1

InitialHead == 1

\* The register carried over from the previous call.
InitialConfigurationStale(s) ==
    [tape |-> InitialTape(s), head_position |-> InitialHead,
     current_state |-> initial_state, current_cache |-> current_cache, steps |-> 0]

\* Lines 43-47: the locals of a call of run() on input s.
InitialConfiguration(s) ==
    [tape |-> InitialTape(s), head_position |-> InitialHead,
     current_state |-> initial_state, current_cache |-> initial_cache, steps |-> 0]

\* The loop admitting one more pass.
LoopGuardInclusive(s, m) == s <= m

LoopGuard(s, m) == s < m
InAcceptState(q, acc) == q \in acc
\* The bounds check off by one.
OffLeftEndLate(h) == h < -1

OffLeftEnd(h) == h < 0

\* The bounds check made before the accept check.
LoopBranchBoundsFirst(q, h, s, m) ==
    IF ~LoopGuard(s, m) THEN "step_limit"
    ELSE IF OffLeftEnd(h) THEN "left_edge"
    ELSE IF InAcceptState(q, accept_states) THEN "accept"
    ELSE "read"

\* The accept check made once more after the loop has run out of steps.
LoopBranchAcceptAtLimit(q, h, s, m) ==
    IF InAcceptState(q, accept_states) THEN "accept"
    ELSE IF ~LoopGuard(s, m) THEN "step_limit"
    ELSE IF OffLeftEnd(h) THEN "left_edge"
    ELSE "read"

\* Lines 55-75: which way one pass of the loop goes before the tape is read.
LoopBranch(q, h, s, m) ==
    IF ~LoopGuard(s, m) THEN "step_limit"
    ELSE IF InAcceptState(q, accept_states) THEN "accept"
    ELSE IF OffLeftEnd(h) THEN "left_edge"
    ELSE "read"

Branch == LoopBranch(current_state, head_position, steps, max_steps)
\* Every move other than R going left.
NextHeadElseLeft(h, move) == IF move = "R" THEN h + 1 ELSE h - 1

NextHead(h, move) == IF move = "R" THEN h + 1 ELSE IF move = "L" THEN h - 1 ELSE h
\* The step counter advancing by two.
NextStepsSkip(s) == s + 2

NextSteps(s) == s + 1
\* The output keeping the marker characters.
OutputStringKeepMarker(str) == Replace(str, Blank)

OutputString(str) == Replace(Replace(str, Blank), Marker)
Configuration(q, c, h, t, s) == <<q, c, h, t, s>>

\* The values no call has set yet.
Untouched ==
    /\ input_string = <<>>
    /\ max_steps = 0
    /\ verbose = FALSE
    /\ head_position = 0
    /\ current_state = initial_state
    /\ current_cache = initial_cache
    /\ steps = 0
    /\ current_symbol = Blank
    /\ result = None
    /\ trace = <<>>
    /\ prev = None
    /\ results = <<>>
    /\ batch = None
    /\ given = <<>>
    /\ rendered = <<>>

\* Lines 8-38: a machine built from a description whose inputs list is one of
\* lists; the parsed description is a local of __init__ and is gone.
Constructed(lists) ==
    /\ \E d \in Descriptions : transitions = ParseTransitions(d, EmptyTable)
    /\ accept_states \in AcceptSets
    /\ initial_state \in States
    /\ \E ic \in ConfigCaches : initial_cache = ConfigGet(ic, Blank)
    /\ inputs \in lists
    /\ config = None
    /\ parsed = 0
    /\ pc = "idle"
    /\ tape = <<>>
    /\ Untouched

\* A description without an inputs key (line 19).
Init == Constructed({<<>>})

\* Lines 40-53: run() entered with input s, ceiling m and verbose flag v.
StartRun(s, m, v) ==
    /\ input_string' = s
    /\ max_steps' = m
    /\ verbose' = v
    /\ LET c == InitialConfiguration(s)
           t == IF v THEN print_configuration(c.tape) ELSE c.tape
       IN /\ tape' = t
          /\ head_position' = c.head_position
          /\ current_state' = c.current_state
          /\ current_cache' = c.current_cache
          /\ steps' = c.steps
          /\ trace' = <<Configuration(c.current_state, c.current_cache,
                                      c.head_position, t, c.steps)>>
    /\ pc' = "loop"
    /\ result' = None
    /\ prev' = IF pc = "done" /\ s = input_string /\ m = max_steps
               THEN [result |-> result, trace |-> trace, verbose |-> verbose]
               ELSE None
    /\ UNCHANGED <<fields, current_symbol, batch, loader, render>>

\* A call of run() from outside; whatever was called before has returned.
Call(s, m, v) ==
    /\ pc \in {"idle", "done", "batch_done"}
    /\ batch = None
    /\ StartRun(s, m, v)
    /\ results' = <<>>

\* A return statement of run(): the verbose branch renders the tape once for
\* the message, the return expression renders it again.
Return(acc, why) ==
    LET shown == IF verbose THEN get_tape_string(tape).tape ELSE tape
        r == get_tape_string(shown)
    IN /\ result' = [accepted |-> acc, output |-> OutputString(r.ret), reason |-> why]
       /\ tape' = r.tape
       /\ pc' = "done"
       /\ UNCHANGED <<fields, args, head_position, current_state, current_cache,
                      steps, current_symbol, trace, prev, results, batch, loader, render>>

\* Lines 55-64.
AcceptReturn ==
    /\ pc = "loop"
    /\ Branch = "accept"
    /\ Return(TRUE, "accepted")

\* Lines 66-74.
LeftEdgeReturn ==
    /\ pc = "loop"
    /\ Branch = "left_edge"
    /\ Return(FALSE, "left_edge")

\* Lines 76-80.
ReadSymbol ==
    /\ pc = "loop"
    /\ Branch = "read"
    /\ tape' = ExtendTape(tape, head_position)
    /\ current_symbol' = PyIndex(tape', head_position)
    /\ pc' = "lookup"
    /\ UNCHANGED <<fields, args, head_position, current_state, current_cache,
                   steps, result, trace, prev, results, batch, loader, render>>

Key == <<current_state, current_cache, current_symbol>>

\* Lines 82-91.
NoTransitionReturn ==
    /\ pc = "lookup"
    /\ Key \notin DOMAIN transitions
    /\ Return(FALSE, "no_transition")

\* The running register kept in the instance attribute.
ApplyOnFields ==
    /\ pc = "lookup"
    /\ Key \in DOMAIN transitions
    /\ LET next_state == transitions[Key][1]
           new_cache == transitions[Key][2]
           write_symbol == transitions[Key][3]
           move == transitions[Key][4]
           written == PyStore(tape, head_position, write_symbol)
           t == IF verbose THEN print_configuration(written) ELSE written
       IN /\ tape' = t
          /\ current_cache' = new_cache
          /\ initial_cache' = new_cache
          /\ head_position' = NextHead(head_position, move)
          /\ current_state' = next_state
          /\ steps' = NextSteps(steps)
          /\ trace' = Append(trace, Configuration(next_state, new_cache,
                                NextHead(head_position, move), t, NextSteps(steps)))
    /\ pc' = "loop"
    /\ UNCHANGED <<transitions, accept_states, initial_state, inputs, args,
                   current_symbol, result, prev, results, batch, loader, render>>

\* Lines 93-111.
Apply ==
    /\ pc = "lookup"
    /\ Key \in DOMAIN transitions
    /\ LET next_state == transitions[Key][1]
           new_cache == transitions[Key][2]
           write_symbol == transitions[Key][3]
           move == transitions[Key][4]
           written == PyStore(tape, head_position, write_symbol)
           t == IF verbose THEN print_configuration(written) ELSE written
       IN /\ tape' = t
          /\ current_cache' = new_cache
          /\ head_position' = NextHead(head_position, move)
          /\ current_state' = next_state
          /\ steps' = NextSteps(steps)
          /\ trace' = Append(trace, Configuration(next_state, new_cache,
                                NextHead(head_position, move), t, NextSteps(steps)))
    /\ pc' = "loop"
    /\ UNCHANGED <<fields, args, current_symbol, result, prev, results, batch, loader, render>>

\* Lines 55, 113-119.
StepLimitReturn ==
    /\ pc = "loop"
    /\ Branch = "step_limit"
    /\ Return(FALSE, "step_limit")

RunStep ==
    \/ AcceptReturn
    \/ LeftEdgeReturn
    \/ ReadSymbol
    \/ NoTransitionReturn
    \/ Apply
    \/ StepLimitReturn

Next ==
    \/ \E s \in InputStrings, m \in 0..MaxSteps, v \in BOOLEAN : Call(s, m, v)
    \/ RunStep

Spec == Init /\ [][Next]_vars

\* One call of run() on a newly constructed machine.  run() is synchronous:
\* once called, its loop keeps taking steps until a return statement.
FirstCall ==
    /\ pc = "idle"
    /\ \E s \in InputStrings, m \in 0..MaxSteps, v \in BOOLEAN : Call(s, m, v)

NextRun ==
    \/ FirstCall
    \/ RunStep

FairSpec == Init /\ [][NextRun]_vars /\ WF_vars(RunStep)

\* ---------------------------------------------------- run_all_inputs()
\* The result tuple put in front of the list.
CollectResultFront(res, s, r) == <<<<s, r.accepted, r.output>>>> \o res

\* Line 152: results.append((input_string, result, string)).
CollectResult(res, s, r) == Append(res, <<s, r.accepted, r.output>>)

\* Lines 147-149: run_all_inputs(verbose) entered.
RunAllInputs(v) ==
    /\ pc \in {"idle", "done", "batch_done"}
    /\ batch = None
    /\ batch' = [i |-> 1, verbose |-> v]
    /\ results' = <<>>
    /\ pc' = "batch"
    /\ UNCHANGED <<fields, args, locals, result, trace, prev, loader, render>>

\* Lines 150-151: the next input handed to run() with the default ceiling.
BatchRun ==
    /\ pc = "batch"
    /\ batch.i <= Len(inputs)
    /\ StartRun(inputs[batch.i], DefaultMaxSteps, batch.verbose)
    /\ UNCHANGED results

\* Line 152: the run has returned and its result is collected.
BatchCollect ==
    /\ pc = "done"
    /\ batch # None
    /\ results' = CollectResult(results, inputs[batch.i], result)
    /\ batch' = [batch EXCEPT !.i = batch.i + 1]
    /\ pc' = "batch"
    /\ UNCHANGED <<fields, args, locals, result, trace, prev, loader, render>>

\* Lines 154-162: the inputs are used up; the summary is printed from
\* results and results is returned.
BatchReturn ==
    /\ pc = "batch"
    /\ batch.i > Len(inputs)
    /\ batch' = None
    /\ pc' = "batch_done"
    /\ UNCHANGED <<fields, args, locals, result, trace, prev, results, loader, render>>

\* A machine whose description lists inputs, called from outside through
\* run_all_inputs() and through run() with the default ceiling.
BatchInit == Constructed(InputLists)

BatchNext ==
    \/ \E v \in BOOLEAN : RunAllInputs(v)
    \/ BatchRun
    \/ BatchCollect
    \/ BatchReturn
    \/ \E s \in ListedStrings, v \in BOOLEAN : Call(s, DefaultMaxSteps, v)
    \/ RunStep

BatchSpec == BatchInit /\ [][BatchNext]_vars

\* ------------------------------------------ __init__ step by step
\* Lines 8-19: the description is loaded and the fields other than the
\* table are set; the table is still empty (line 18).
BuildInit ==
    /\ \E d \in Descriptions, ic \in ConfigCaches :
          /\ config = [transitions |-> d, initial_cache |-> ic]
          /\ initial_cache = ConfigGet(ic, Blank)
    /\ transitions = EmptyTable
    /\ accept_states \in AcceptSets
    /\ initial_state \in States
    /\ inputs = <<>>
    /\ parsed = 0
    /\ pc = "new"
    /\ tape = <<>>
    /\ Untouched

\* Lines 24-38: one pass of the loop over config['transitions'].
ParseEntry ==
    /\ pc = "new"
    /\ parsed < Len(config.transitions)
    /\ transitions' = StoreTransition(transitions, config.transitions[parsed + 1])
    /\ parsed' = parsed + 1
    /\ UNCHANGED <<accept_states, initial_state, initial_cache, inputs, args, locals,
                   pc, result, trace, prev, results, batch, config, render>>

\* __init__ returns.
FinishInit ==
    /\ pc = "new"
    /\ parsed = Len(config.transitions)
    /\ pc' = "idle"
    /\ UNCHANGED <<fields, args, locals, result, trace, prev, results, batch, loader, render>>

\* A call of run() on the machine, with the largest ceiling.
BuildCall ==
    /\ pc \in {"idle", "done"}
    /\ \E s \in InputStrings, v \in BOOLEAN : Call(s, MaxSteps, v)

BuildNext ==
    \/ ParseEntry
    \/ FinishInit
    \/ BuildCall
    \/ RunStep

BuildSpec == BuildInit /\ [][BuildNext]_vars

\* --------------------------------------- _get_tape_string() on its own
\* Any list of tape symbols up to MaxTapeLen cells, the empty list included;
\* the method uses nothing of the machine.
RenderInit ==
    /\ transitions = EmptyTable
    /\ accept_states = {}
    /\ initial_state = "q0"
    /\ initial_cache = Blank
    /\ inputs = <<>>
    /\ config = None
    /\ parsed = 0
    /\ pc = "render"
    /\ tape \in Tapes
    /\ Untouched

\* Lines 121-129: one call of _get_tape_string(tape).
Render ==
    /\ pc = "render"
    /\ given' = tape
    /\ rendered' = get_tape_string(tape).ret
    /\ tape' = get_tape_string(tape).tape
    /\ pc' = "rendered"
    /\ UNCHANGED <<fields, args, head_position, current_state, current_cache, steps,
                   current_symbol, result, trace, prev, results, batch, loader>>

RenderNext == Render

RenderSpec == RenderInit /\ [][RenderNext]_vars

\* ------------------------------------------------------------ properties
Running == pc \in {"loop", "lookup"}
Done == pc = "done"
Rejected(why) == Done /\ result.accepted = FALSE /\ result.reason = why
Accepted == Done /\ result.accepted = TRUE /\ result.reason = "accepted"

\* C1: every call of run() returns, and the step counter never exceeds
\* max_steps.
C1_RunTerminates ==
    /\ [](steps <= max_steps)
    /\ (Running ~> Done)

C1_Witness == Rejected("step_limit") /\ max_steps = MaxSteps /\ steps = max_steps

\* C2 (as stated): a run that ends with the head at -1 is Rejected for the
\* left-edge overrun, whatever the state.
C2_HeadMinusOneAlwaysRejected ==
    (Done /\ head_position = -1) => Rejected("left_edge")

\* C2 (amended): a run whose head reaches -1 while the state is not an accept
\* state and fewer than max_steps transitions have been applied is Rejected
\* for the left-edge overrun.
C2_LeftEdgeRejected ==
    (Done /\ head_position = -1 /\ current_state \notin accept_states
          /\ steps < max_steps)
        => Rejected("left_edge")

C2_Witness == Rejected("left_edge") /\ head_position = -1

\* C3: at the top of a pass with steps < max_steps, an accept state returns
\* Accepted whatever the head position, without touching the tape, the symbol
\* read or the step counter; otherwise a negative head returns the left-edge
\* rejection, and only otherwise is the tape read.
C3_CheckOrder ==
    [][ (pc = "loop" /\ steps < max_steps) =>
          /\ (current_state \in accept_states) =>
                /\ pc' = "done" /\ result'.accepted /\ result'.reason = "accepted"
                /\ tape' = tape /\ current_symbol' = current_symbol /\ steps' = steps
          /\ (current_state \notin accept_states /\ head_position < 0) =>
                /\ pc' = "done" /\ ~result'.accepted /\ result'.reason = "left_edge"
          /\ (current_state \notin accept_states /\ head_position >= 0) =>
                pc' = "lookup"
      ]_vars

C3_Witness == Accepted /\ head_position = -1 /\ steps < max_steps

\* C4 (as stated): with initial_state in accept_states every call returns
\* Accepted after 0 transitions with the initial tape intact.
C4_AcceptingStartAccepts ==
    (Done /\ initial_state \in accept_states) =>
        /\ Accepted
        /\ steps = 0
        /\ tape = <<"$">> \o input_string \o <<"B">>

\* C4 (amended): the same for every call with max_steps >= 1.
C4_AcceptingStartAcceptsPositiveCeiling ==
    (Done /\ initial_state \in accept_states /\ max_steps >= 1) =>
        /\ Accepted
        /\ steps = 0
        /\ tape = <<"$">> \o input_string \o <<"B">>

C4_Witness ==
    Accepted /\ initial_state \in accept_states /\ input_string = <<>> /\ steps = 0

StripLeadingMarker(t) == IF t # <<>> /\ t[1] = "$" THEN Tail(t) ELSE t

\* C5: on every return the output is the final tape without its leading
\* sentinel and without its blanks, every other cell kept in order.
C5_OutputIsTapeContent ==
    Done => result.output = SelectSeq(StripLeadingMarker(tape), LAMBDA x : x # "B")

InputContent == SelectSeq(input_string, LAMBDA x : x \notin {"B", "$"})

\* C6 (as stated): an empty table and a non-accept initial state give the
\* no-transition rejection after 0 transitions, the output being the input
\* without blanks and sentinel characters.
C6_EmptyTableRejects ==
    (Done /\ DOMAIN transitions = {} /\ initial_state \notin accept_states) =>
        /\ Rejected("no_transition")
        /\ steps = 0
        /\ result.output = InputContent

\* C6 (amended): the same for every call with max_steps >= 1.
C6_EmptyTableRejectsPositiveCeiling ==
    (Done /\ DOMAIN transitions = {} /\ initial_state \notin accept_states
          /\ max_steps >= 1) =>
        /\ Rejected("no_transition")
        /\ steps = 0
        /\ result.output = InputContent

C6_Witness ==
    /\ Rejected("no_transition")
    /\ DOMAIN transitions = {}
    /\ input_string = <<"$">>
    /\ result.output = <<>>

\* Every configuration of the current call stayed out of the accept states
\* and at a head position >= 0, and no lookup failed.
NeverHalts ==
    /\ \A i \in 1..Len(trace) : trace[i][1] \notin accept_states /\ trace[i][3] >= 0
    /\ result.reason # "no_transition"

\* C7: a run that never enters an accept state, never has its head below 0
\* and never misses a transition is Rejected by the step limit after exactly
\* max_steps transitions.
C7_LoopingRunHitsCeiling ==
    (Done /\ NeverHalts) =>
        /\ Rejected("step_limit")
        /\ steps = max_steps
        /\ Len(trace) = max_steps + 1

C7_Witness ==
    /\ Done /\ NeverHalts
    /\ max_steps = MaxSteps
    /\ steps = MaxSteps
    /\ head_position = 1
    /\ \A i \in 1..Len(trace) : trace[i][3] = 1

\* C8: a call repeating the input and the ceiling of the call before it
\* returns the same verdict and the same output string.
C8_RepeatedRunSameResult ==
    (Done /\ prev # None) =>
        /\ result.accepted = prev.result.accepted
        /\ result.output = prev.result.output
        /\ result.reason = prev.result.reason

C8_Witness ==
    /\ Done /\ prev # None
    /\ steps >= 1
    /\ current_cache # initial_cache
    /\ result.output # InputContent

\* C9: a read with the head at or past the end of the tape extends the tape
\* with blanks to exactly head + 1 cells, reads a blank and keeps every cell
\* there was.
C9_BlankFill ==
    [][ (pc = "loop" /\ pc' = "lookup" /\ head_position >= Len(tape)) =>
          /\ Len(tape') = head_position + 1
          /\ current_symbol' = "B"
          /\ SubSeq(tape', 1, Len(tape)) = tape
          /\ \A i \in (Len(tape) + 1)..Len(tape') : tape'[i] = "B"
      ]_vars

C9_Witness ==
    /\ pc = "lookup"
    /\ Len(tape) = head_position + 1
    /\ Len(tape) = Len(input_string) + 3

\* C10: a call repeating the input and the ceiling of the call before it
\* with the other verbose flag passes through the same configurations and
\* returns the same verdict and output string.
C10_VerboseSameRun ==
    (prev # None /\ prev.verbose # verbose /\ pc # "idle") =>
        /\ Len(trace) <= Len(prev.trace)
        /\ trace = SubSeq(prev.trace, 1, Len(trace))
        /\ Done => /\ trace = prev.trace
                   /\ result = prev.result

C10_Witness ==
    /\ Done /\ prev # None /\ prev.verbose # verbose
    /\ Len(trace) >= 3
    /\ Len(tape) > Len(input_string) + 2

AppliedStep == pc = "lookup" /\ pc' = "loop"
Fired == transitions[<<current_state, current_cache, current_symbol>>]

\* C15: an applied transition moves the head by -1 for move L, by +1 for
\* move R and not at all for any other move value.
C15_HeadMoves ==
    [][ AppliedStep =>
          head_position' - head_position =
              (IF Fired[4] = "L" THEN -1 ELSE IF Fired[4] = "R" THEN 1 ELSE 0)
      ]_vars

C15_Witness ==
    /\ pc = "loop" /\ Len(trace) = 3
    /\ trace[1][3] = 1
    /\ trace[2][3] = 2
    /\ trace[3][3] = 1

\* C16: an applied transition writes its write symbol into the cell under the
\* head and changes no other cell and not the tape length; register and
\* state become the transition's, the step counter grows by one, and while a
\* call runs the step counter is the number of transitions applied.
C16_ApplyFrame ==
    /\ [](Running => steps = Len(trace) - 1)
    /\ [][ AppliedStep =>
             /\ Len(tape') = Len(tape)
             /\ tape'[head_position + 1] = Fired[3]
             /\ \A i \in 1..Len(tape) : i # head_position + 1 => tape'[i] = tape[i]
             /\ current_cache' = Fired[2]
             /\ current_state' = Fired[1]
             /\ steps' = steps + 1
         ]_vars

C16_Witness ==
    /\ pc = "loop" /\ steps = 1 /\ head_position = 2
    /\ input_string = <<"a">>
    /\ tape = <<"$", "$", "B">>
    /\ current_cache = "a" /\ initial_cache = "B"

\* C18: a run that ends in an accept state returns Accepted exactly when
\* fewer than max_steps transitions were applied; with steps = max_steps it is
\* Rejected by the step limit, and so is a run whose head is at -1 when the
\* steps run out.
C18_AcceptOnlyInsideLoop ==
    /\ (Done /\ current_state \in accept_states) =>
          /\ result.accepted <=> steps < max_steps
          /\ steps = max_steps => Rejected("step_limit")
    /\ (Done /\ head_position = -1 /\ steps = max_steps) => Rejected("step_limit")

C18_Witness ==
    /\ Rejected("step_limit")
    /\ current_state \in accept_states /\ initial_state \notin accept_states
    /\ steps = max_steps
    /\ head_position = -1

\* C19: at the top of a pass -1 <= head <= len(tape); the tape is read and
\* written only at 0 <= head < len(tape); within a call the tape grows by at
\* most one cell per step and never shrinks.
C19_HeadWithinTape ==
    /\ [](pc = "loop" => (-1 <= head_position /\ head_position <= Len(tape)))
    /\ [](pc = "lookup" => (0 <= head_position /\ head_position < Len(tape)))
    /\ [][ Running =>
             (Len(tape) <= Len(tape') /\ Len(tape') <= Len(tape) + 1) ]_vars

C19_Witness == pc = "loop" /\ head_position = Len(tape) /\ steps < max_steps

\* What a call run(s, max_steps = m) made on its own returns: the verdict and
\* the output string reached from the initial configuration.
RECURSIVE RunFrom(_, _, _, _, _, _)
RunFrom(t, h, q, c, n, m) ==
    LET b == LoopBranch(q, h, n, m)
        t2 == ExtendTape(t, h)
        k == <<q, c, PyIndex(t2, h)>>
    IN IF b = "accept" THEN <<TRUE, OutputString(Rendered(t))>>
       ELSE IF b \in {"left_edge", "step_limit"} THEN <<FALSE, OutputString(Rendered(t))>>
       ELSE IF k \notin DOMAIN transitions THEN <<FALSE, OutputString(Rendered(t2))>>
       ELSE RunFrom(PyStore(t2, h, transitions[k][3]), NextHead(h, transitions[k][4]),
                    transitions[k][1], transitions[k][2], n + 1, m)

RunReturns(s, m) == RunFrom(<<"$">> \o s \o <<"B">>, 1, initial_state, initial_cache, 0, m)

\* C11: run_all_inputs() returns one entry per string of inputs, in order,
\* the i-th being (inputs[i], verdict, output) of run(inputs[i]) with the
\* default ceiling, which is also what a call of run() on its own returns,
\* whatever was run before.
C11_BatchMatchesRun ==
    /\ (Done /\ batch = None) =>
          <<result.accepted, result.output>> = RunReturns(input_string, max_steps)
    /\ (pc \in {"batch", "batch_done"}) =>
          \A i \in 1..Len(results) :
              results[i] = <<inputs[i]>> \o RunReturns(inputs[i], DefaultMaxSteps)
    /\ (pc = "batch_done") => Len(results) = Len(inputs)

C11_Witness ==
    /\ pc = "batch_done"
    /\ Len(results) = 2
    /\ results[1][1] # results[2][1]
    /\ results[1][2] # results[2][2]
    /\ results[1][3] # results[2][3]

\* The table the first n entries of description d give.
LastWith(d, n, k) == CHOOSE i \in 1..n :
    /\ TransitionKey(d[i]) = k
    /\ \A j \in (i + 1)..n : TransitionKey(d[j]) # k

\* C12: the table built from the description's entries has exactly the keys
\* of the entries, and each key holds the value of the last entry with that
\* key; entries with a key already present are stored like any other.
C12_LastEntryWins ==
    (config # None) =>
        /\ DOMAIN transitions = { TransitionKey(config.transitions[i]) : i \in 1..parsed }
        /\ \A k \in DOMAIN transitions :
              transitions[k] =
                  TransitionValue(config.transitions[LastWith(config.transitions, parsed, k)])
        /\ (pc # "new") => parsed = Len(config.transitions)

C12_Witness ==
    /\ config # None /\ pc = "idle"
    /\ Len(config.transitions) = 2
    /\ TransitionKey(config.transitions[1]) = TransitionKey(config.transitions[2])
    /\ TransitionValue(config.transitions[1]) # TransitionValue(config.transitions[2])

\* C13: no step of run() or run_all_inputs() changes the table, the accept
\* states, the initial state, the initial register value or the inputs list.
C13_FieldsFrozen ==
    [][ /\ transitions' = transitions
        /\ accept_states' = accept_states
        /\ initial_state' = initial_state
        /\ initial_cache' = initial_cache
        /\ inputs' = inputs ]_vars

C13_Witness ==
    /\ pc = "batch_done"
    /\ Len(inputs) = 2
    /\ steps >= 1
    /\ current_cache # initial_cache

\* Entry e of the description matches the configuration at the lookup.
Matches(e) ==
    /\ e.state = current_state
    /\ e.read[1] = current_symbol
    /\ e.read[2] = current_cache

\* The step taken applies entry e.
Fires(e) ==
    /\ pc' = "loop"
    /\ tape'[head_position + 1] = e.write[1]
    /\ current_cache' = e.write[2]
    /\ current_state' = e.next

\* No later entry of description d has the state and read of entry i.
Effective(d, i) ==
    \A j \in (i + 1)..Len(d) : d[j].state # d[i].state \/ d[j].read # d[i].read

\* C14 (as stated): at the lookup, every description entry whose state, tape
\* symbol and register symbol are the current ones fires, writing its tape
\* symbol, register symbol and next state; and a transition is applied only
\* if such an entry exists.
C14_EveryEntryFires ==
    [][ (config # None /\ pc = "lookup") =>
          /\ \A i \in 1..Len(config.transitions) :
                Matches(config.transitions[i]) => Fires(config.transitions[i])
          /\ (pc' = "loop") =>
                \E i \in 1..Len(config.transitions) : Matches(config.transitions[i])
      ]_vars

\* C14 (amended): the same for every entry that no later entry of the
\* description repeats in state and read.
C14_EffectiveEntryFires ==
    [][ (config # None /\ pc = "lookup") =>
          /\ \A i \in 1..Len(config.transitions) :
                (Effective(config.transitions, i) /\ Matches(config.transitions[i]))
                    => Fires(config.transitions[i])
          /\ (pc' = "loop") =>
                \E i \in 1..Len(config.transitions) : Matches(config.transitions[i])
      ]_vars

C14_Witness ==
    /\ config # None /\ pc = "loop"
    /\ Len(trace) = 3
    /\ trace[1] = <<"q0", "B", 1, <<"$", "a", "B">>, 0>>
    /\ trace[2] = <<"q0", "a", 2, <<"$", "$", "B">>, 1>>
    /\ trace[3] = <<"qa", "B", 1, <<"$", "$", "a">>, 2>>

\* C17: a call of run() starts with the tape '$', the input, 'B', the head
\* at 1, the state initial_state, the register initial_cache ('B' when the
\* description gives none) and 0 steps; for the empty input the head is on
\* the blank.
C17_InitialConfiguration ==
    [][ (config # None /\ pc \in {"idle", "done"} /\ pc' = "loop") =>
          /\ tape' = <<"$">> \o input_string' \o <<"B">>
          /\ head_position' = 1
          /\ current_state' = initial_state
          /\ current_cache' = initial_cache
          /\ current_cache' =
                (IF config.initial_cache = "<absent>" THEN "B" ELSE config.initial_cache)
          /\ steps' = 0
          /\ input_string' = <<>> => tape'[head_position' + 1] = "B"
      ]_vars

C17_Witness ==
    /\ config # None /\ pc = "loop" /\ steps = 0
    /\ prev # None
    /\ config.initial_cache = "<absent>"
    /\ input_string = <<>>
    /\ Len(prev.trace) >= 3

RECURSIVE LastNonBlank(_)
LastNonBlank(t) ==
    IF t = <<>> THEN 0
    ELSE IF t[Len(t)] # "B" THEN Len(t)
    ELSE LastNonBlank(SubSeq(t, 1, Len(t) - 1))

\* C20: _get_tape_string(tape) returns the cells up to the last cell that is
\* not 'B', but never fewer than one cell: an all-blank tape gives 'B' alone;
\* the result is never empty and the tape passed in is left as it was.
C20_RenderTrimsTrailingBlanks ==
    (pc = "rendered") =>
        /\ LastNonBlank(given) >= 1 => rendered = SubSeq(given, 1, LastNonBlank(given))
        /\ LastNonBlank(given) = 0 => rendered = <<"B">>
        /\ rendered # <<>>
        /\ tape = given

C20_Witness ==
    /\ pc = "rendered"
    /\ given = <<"B", "a", "B", "B">>
    /\ rendered = <<"B", "a">>

====
